---- MODULE Spec2Model ----
(***************************************************************************)
(* A model of the FusionBrain cognitive core: the Memory buffer            *)
(* (core/memory.py), the GoalManager (core/goals.py), SelfState            *)
(* (core/self_state.py), the PolicySampler router                          *)
(* (experts/policy_sampler.py), MetaLearning (meta/meta_learning.py) and   *)
(* the think loop of FusionBrain (core/brain.py).                          *)
(*                                                                         *)
(* Floats are fixed-point integers: importances and weights in units of    *)
(* 1/10000, the SelfState scalars in units of 1/1000.  Time is counted in  *)
(* ticks of ten seconds.                                                   *)
(***************************************************************************)
EXTENDS Integers, Sequences, FiniteSets, TLC

VARIABLES
    now,                \* time.time(), in ticks
    nextId,             \* the next fresh uuid4
    buffer,             \* Memory.buffer: deque(maxlen = max_items) of items
    index,              \* Memory.index: id -> item
    topics,             \* Memory.topics: topic -> set of ids
    last_consolidation, \* Memory._last_consolidation
    disk,               \* the memory snapshot file
    memOut,             \* the last Memory call: its name, argument, result
    reader,             \* a second Memory, built to load the snapshot file
    tpc,                \* where the orchestration thread stands inside Memory
    seen,               \* what the monitoring thread last read of Memory
    goals,              \* GoalManager.goals: the Goal objects in dict order
    nextGoalId,         \* the next fresh goal uuid4
    goalOut,            \* the last GoalManager.current call: what it returned
    fatigue, stress, mood, confidence, focus,   \* SelfState scalars
    last_update,        \* SelfState.last_update
    updates,            \* number of SelfState.update calls made so far
    snapOut,            \* the last SelfState.snapshot result
    selfIn,             \* the last SelfState.update call: when, what it left
    weights,            \* MetaLearning.weights: expert -> weight
    metaStats,          \* MetaLearning.stats
    metaFile,           \* the weights file at MetaLearning.storage_path
    learns,             \* number of MetaLearning.learn calls made so far
    metaIn,             \* the last MetaLearning.learn call: its arguments
    routeIn,            \* the last classify_intent call: prompt and reply
    routeOut,           \* what that call returned
    pc,                 \* FusionBrain: where the REPL / think stands
    user,               \* FusionBrain.repl: what input() last gave
    user_prompt,        \* FusionBrain.think: its argument
    plan,               \* FusionBrain.think: intent, expert, difficulty
    loop,               \* FusionBrain.think: the locals of its dispatch loop
    knowledge,          \* KnowledgeBase: whether it booted, its collection
    kbOut,              \* the last KnowledgeBase.add call and what it returned
    batchOut,           \* the last KnowledgeBase.add_batch call and how it ended
    critic              \* CriticExpert.run: where it stands, its locals, its file

memVars == <<nextId, buffer, index, topics, last_consolidation, disk, memOut,
             reader>>

threadVars == <<tpc, seen>>
goalVars == <<goals, nextGoalId, goalOut>>
selfVars == <<fatigue, stress, mood, confidence, focus, last_update, updates,
              snapOut, selfIn>>

metaVars == <<weights, metaStats, metaFile, learns, metaIn>>
routeVars == <<routeIn, routeOut>>
brainVars == <<pc, user, user_prompt, plan, loop>>
kbVars == <<knowledge, kbOut, batchOut>>
criticVars == <<critic>>

vars == <<now, memVars, threadVars, goalVars, selfVars, metaVars, routeVars, brainVars,
          kbVars, criticVars>>

----------------------------------------------------------------------------
(* Bounds of the model *)

MaxItems == 2       \* Memory(max_items = MaxItems)
MaxIds == 3         \* items created in one behaviour
MaxTime == 3        \* ticks of the clock
MaxSweepTime == 4   \* ticks of the clock while consolidate is exercised
MaxGoals == 2       \* goals created in one behaviour
MaxGoalTime == 1    \* ticks of the clock while goals are managed
MaxUpdates == 2     \* SelfState.update calls in one behaviour
MaxLearns == 3      \* MetaLearning.learn calls in one behaviour
MaxPromptLen == 2   \* words of a prompt
MaxAge == 11        \* ticks of the clock while items only age

(* Parameters and constants of the program, in the model's units *)

max_items == MaxItems
consolidation_interval == 2     \* ticks
decay_half_life == 1            \* ticks
ImpOne == 10000                 \* importance 1.0
DecayFloor == 200               \* the floor 0.02 of consolidate
ImpLow == ImpOne \div 20        \* importance 0.05
ImpFloor == DecayFloor          \* importance 0.02

None == "None"
Topics == {"t1"}

----------------------------------------------------------------------------
(* Helpers for Python containers *)

Min(a, b) == IF a < b THEN a ELSE b
Max(a, b) == IF a > b THEN a ELSE b

\* dict[k] = v
DictSet(d, k, v) == [x \in DOMAIN d \cup {k} |-> IF x = k THEN v ELSE d[x]]

\* the empty dict
EmptyDict == [x \in {} |-> 0]

\* defaultdict(set)[k].add(v)
SetAdd(d, k, v) ==
    DictSet(d, k, (IF k \in DOMAIN d THEN d[k] ELSE {}) \cup {v})

\* list[start:] of Python, start of either sign
PySliceFrom(list, start) ==
    LET n == Len(list)
        s == IF start < 0 THEN Max(n + start, 0) ELSE Min(start, n)
    IN  SubSeq(list, s + 1, n)

\* deque(maxlen).append(item): a full deque drops its leftmost element
DequeAppendNoEvict(buf, item, maxlen) == Append(buf, item)
DequeAppend(buf, item, maxlen) ==
    IF maxlen = 0 THEN buf
    ELSE IF Len(buf) >= maxlen THEN Append(Tail(buf), item)
    ELSE Append(buf, item)

RECURSIVE SeqFilter(_, _)
\* [m for m in list if Keep(m)], Keep given as the set of kept elements
SeqFilter(list, keep) ==
    IF list = <<>> THEN <<>>
    ELSE IF Head(list) \in keep
         THEN <<Head(list)>> \o SeqFilter(Tail(list), keep)
         ELSE SeqFilter(Tail(list), keep)

SeqRange(list) == {list[i] : i \in 1..Len(list)}

----------------------------------------------------------------------------
(* Memory *)

\* math.exp(-k) in units of 1/10000, k = age / half_life in whole half-lives
ExpTable == <<10000, 3679, 1353, 498, 183, 67, 25, 9, 3, 1>>
ExpFix(k) ==
    IF k < 0 THEN ImpOne ELSE IF k + 1 > Len(ExpTable) THEN 0 ELSE ExpTable[k + 1]

\* the importance alone, whatever the age
DecayNoAge(item, t) == item.importance * ImpOne

\* Memory._decay, in units of 1e-8
Decay(item, t) == item.importance * ExpFix((t - item.ts) \div decay_half_life)

\* self._decay(m) > 0.02
AboveFloor(item, t) == Decay(item, t) > DecayFloor * ImpOne

\* no result recorded: the last call was not recent, consolidate or load
NoOut == [op |-> "none", arg |-> 0, ret |-> <<>>, raised |-> FALSE]

\* Memory._make_item with the fields store / inject then overwrite
MakeItem(id, role, text, topic, importance, attention, t) ==
    [id |-> id, role |-> role, content |-> text, ts |-> t,
     importance |-> importance, attention |-> attention, topic |-> topic]

\* Memory._register (the per-role counters of Memory.stats, read only by
\* diagnostics, are left out)
Register(item) ==
    /\ buffer' = DequeAppend(buffer, item, max_items)
    /\ index' = DictSet(index, item.id, item)
    /\ topics' = IF item.topic # None THEN SetAdd(topics, item.topic, item.id)
                 ELSE topics

\* Memory.store
Store(role, text, topic, importance, attention) ==
    /\ nextId <= MaxIds
    /\ Register(MakeItem(nextId, role, text, topic, importance, attention, now))
    /\ nextId' = nextId + 1
    /\ memOut' = NoOut
    /\ UNCHANGED <<now, last_consolidation, disk, reader>>

\* Memory.inject
Inject(role, text, topic, importance) ==
    /\ nextId <= MaxIds
    /\ Register(MakeItem(nextId, role, text, topic, importance, ImpOne, now))
    /\ nextId' = nextId + 1
    /\ memOut' = NoOut
    /\ UNCHANGED <<now, last_consolidation, disk, reader>>

\* Memory.recent
RecentHead(n) == SubSeq(buffer, 1, Min(n, Len(buffer)))
Recent(n) == PySliceFrom(buffer, -n)

RecentCall(n) ==
    /\ memOut' = [op |-> "recent", arg |-> n, ret |-> Recent(n), raised |-> FALSE]
    /\ UNCHANGED <<now, nextId, buffer, index, topics,
                   last_consolidation, disk, reader>>

\* Memory.consolidate past its early return: the sweep
Sweep ==
    LET survivors ==
            SeqFilter(buffer, {m \in SeqRange(buffer) : AboveFloor(m, now)})
    IN  /\ buffer' = survivors
        /\ index' = [id \in {m.id : m \in SeqRange(survivors)} |->
                       CHOOSE m \in SeqRange(survivors) : m.id = id]
        /\ last_consolidation' = now

\* what memOut keeps of a consolidate call: the _last_consolidation it found
ConsolidateOut ==
    [op |-> "consolidate", arg |-> last_consolidation, ret |-> <<>>,
     raised |-> FALSE]

\* Memory.consolidate
ConsolidateAlways ==
    /\ Sweep
    /\ memOut' = ConsolidateOut
    /\ UNCHANGED <<now, nextId, topics, disk, reader>>
Consolidate ==
    /\ IF now - last_consolidation < consolidation_interval
       THEN UNCHANGED <<buffer, index, last_consolidation>>
       ELSE Sweep
    /\ memOut' = ConsolidateOut
    /\ UNCHANGED <<now, nextId, topics, disk, reader>>

\* json.dump of one item: the dictionary of _make_item, topic under "meta"
JsonObject(item) ==
    [id |-> item.id, role |-> item.role, content |-> item.content,
     ts |-> item.ts, importance |-> item.importance,
     attention |-> item.attention, meta |-> [topic |-> item.topic]]

\* MemoryItem(d) of one object of the file; d["meta"]["topic"] is its topic
MemoryItem(d) ==
    [id |-> d.id, role |-> d.role, content |-> d.content, ts |-> d.ts,
     importance |-> d.importance, attention |-> d.attention,
     topic |-> d.meta.topic]

\* Memory.save: json.dump(self.dump())
Save ==
    /\ disk' = [kind |-> "ok",
                items |-> [i \in 1..Len(buffer) |-> JsonObject(buffer[i])]]
    /\ memOut' = NoOut
    /\ UNCHANGED <<now, nextId, buffer, index, topics,
                   last_consolidation, reader>>

\* a crash in the middle of Memory.save leaves a partially written file
SaveCrash ==
    /\ disk' = [kind |-> "corrupt", items |-> <<>>]
    /\ memOut' = NoOut
    /\ UNCHANGED <<now, nextId, buffer, index, topics,
                   last_consolidation, reader>>

RECURSIVE LoadItems(_, _, _, _, _)
\* the loop of Memory.load over data[-max_items:]
LoadItems(data, buf, idx, tops, maxlen) ==
    IF data = <<>> THEN [buffer |-> buf, index |-> idx, topics |-> tops]
    ELSE LET item == MemoryItem(Head(data))
         IN  LoadItems(Tail(data),
                       DequeAppend(buf, item, maxlen),
                       DictSet(idx, item.id, item),
                       IF item.topic # None THEN SetAdd(tops, item.topic, item.id)
                       ELSE tops,
                       maxlen)

\* Memory.load past json.load: the three clears and the loop, in a Memory
\* of capacity maxlen
MemLoadHead(data, maxlen) ==
    LoadItems(SubSeq(data, 1, Min(maxlen, Len(data))),
              <<>>, EmptyDict, EmptyDict, maxlen)
MemLoad(data, maxlen) ==
    LoadItems(PySliceFrom(data, -maxlen), <<>>, EmptyDict, EmptyDict, maxlen)

\* Memory.load
Load ==
    /\ IF disk.kind # "ok"
       THEN \* open() or json.load() raises before anything is cleared
            /\ memOut' = [op |-> "load", arg |-> 0, ret |-> <<>>, raised |-> TRUE]
            /\ UNCHANGED <<buffer, index, topics>>
       ELSE LET r == MemLoad(disk.items, max_items)
            IN  /\ buffer' = r.buffer
                /\ index' = r.index
                /\ topics' = r.topics
                /\ memOut' = [op |-> "load", arg |-> 0, ret |-> <<>>,
                              raised |-> FALSE]
    /\ UNCHANGED <<now, nextId, last_consolidation, disk, reader>>

\* no second Memory built yet
NoReader ==
    [built |-> FALSE, max_items |-> 0, raised |-> FALSE, buffer |-> <<>>,
     index |-> EmptyDict, topics |-> EmptyDict]

\* Memory(max_items = maxlen).load(path) in a second Memory
LoadInto(maxlen) ==
    /\ reader' =
          IF disk.kind # "ok"
          THEN [NoReader EXCEPT !.built = TRUE, !.max_items = maxlen,
                                !.raised = TRUE]
          ELSE LET r == MemLoad(disk.items, maxlen)
               IN  [built |-> TRUE, max_items |-> maxlen, raised |-> FALSE,
                    buffer |-> r.buffer, index |-> r.index,
                    topics |-> r.topics]
    /\ memOut' = NoOut
    /\ UNCHANGED <<now, nextId, buffer, index, topics, last_consolidation,
                   disk>>

\* Memory.clear
Clear ==
    /\ buffer' = <<>>
    /\ index' = EmptyDict
    /\ topics' = EmptyDict
    /\ memOut' = NoOut
    /\ UNCHANGED <<now, nextId, last_consolidation, disk, reader>>

\* the clock advances between calls
Tick ==
    /\ now < MaxTime
    /\ now' = now + 1
    /\ memOut' = NoOut
    /\ UNCHANGED <<nextId, buffer, index, topics, last_consolidation,
                   disk, reader>>

\* the clock advances between the calls of consolidate
SweepTick ==
    /\ now < MaxSweepTime
    /\ now' = now + 1
    /\ memOut' = NoOut
    /\ UNCHANGED <<nextId, buffer, index, topics, last_consolidation,
                   disk, reader>>

\* Memory.by_topic: self.index[x] for every id x of the topic's set, a
\* KeyError when the index has no such id; the result as a set, the order of
\* a Python set being arbitrary
ByTopicCall(topic) ==
    LET ids == IF topic \in DOMAIN topics THEN topics[topic] ELSE {}
        raised == \E x \in ids : x \notin DOMAIN index
    IN  /\ memOut' = [op |-> "by_topic", arg |-> topic,
                      ret |-> IF raised THEN {} ELSE {index[x] : x \in ids},
                      raised |-> raised]
        /\ UNCHANGED <<now, nextId, buffer, index, topics, last_consolidation,
                       disk, reader>>

\* Memory._decay of the item at position i of the buffer
DecayCall(i) ==
    /\ i \in 1..Len(buffer)
    /\ memOut' = [op |-> "decay", arg |-> i, ret |-> <<Decay(buffer[i], now)>>,
                  raised |-> FALSE]
    /\ UNCHANGED <<now, nextId, buffer, index, topics, last_consolidation,
                   disk, reader>>

\* the clock advances while the items age
AgeTick ==
    /\ now < MaxAge
    /\ now' = now + 1
    /\ memOut' = NoOut
    /\ UNCHANGED <<nextId, buffer, index, topics, last_consolidation,
                   disk, reader>>

\* Memory.__init__, no snapshot file written yet
MemInit ==
    /\ nextId = 1
    /\ buffer = <<>>
    /\ index = EmptyDict
    /\ topics = EmptyDict
    /\ last_consolidation = 0
    /\ disk = [kind |-> "missing", items |-> <<>>]
    /\ memOut = NoOut
    /\ reader = NoReader

----------------------------------------------------------------------------
(* Memory under two threads: the orchestration thread runs store,           *)
(* consolidate and clear one statement at a time, the monitoring thread     *)
(* reads the buffer and the index.  Only _register takes self.lock.         *)

\* self.lock is held while the orchestration thread is inside _register
LockHeld == tpc = "register"

\* store up to the first statement of _register: with self.lock,
\* self.buffer.append(item)
RegisterAppend(role, text, topic, importance, attention) ==
    /\ tpc = "idle"
    /\ nextId <= MaxIds
    /\ buffer' = DequeAppend(buffer,
                    MakeItem(nextId, role, text, topic, importance, attention, now),
                    max_items)
    /\ nextId' = nextId + 1
    /\ tpc' = "register"
    /\ memOut' = NoOut
    /\ UNCHANGED <<now, index, topics, last_consolidation, disk, reader, seen>>

\* the rest of _register: self.index[id] = item, self.topics[topic].add(id),
\* and the lock is released
RegisterIndex ==
    /\ tpc = "register"
    /\ LET item == buffer[Len(buffer)]
       IN  /\ index' = DictSet(index, item.id, item)
           /\ topics' = IF item.topic # None
                        THEN SetAdd(topics, item.topic, item.id) ELSE topics
    /\ tpc' = "idle"
    /\ UNCHANGED <<now, nextId, buffer, last_consolidation, disk, memOut,
                   reader, seen>>

\* consolidate up to self.buffer = survivors, no lock taken
SweepBuffer ==
    /\ tpc = "idle"
    /\ now - last_consolidation >= consolidation_interval
    /\ buffer' = SeqFilter(buffer, {m \in SeqRange(buffer) : AboveFloor(m, now)})
    /\ tpc' = "consolidate"
    /\ memOut' = NoOut
    /\ UNCHANGED <<now, nextId, index, topics, last_consolidation, disk,
                   reader, seen>>

\* the rest of consolidate: self.index = {...}, self._last_consolidation = now
SweepIndex ==
    /\ tpc = "consolidate"
    /\ index' = [id \in {m.id : m \in SeqRange(buffer)} |->
                   CHOOSE m \in SeqRange(buffer) : m.id = id]
    /\ last_consolidation' = now
    /\ tpc' = "idle"
    /\ UNCHANGED <<now, nextId, buffer, topics, disk, memOut, reader, seen>>

\* clear up to self.buffer.clear(), no lock taken
ClearBuffer ==
    /\ tpc = "idle"
    /\ buffer' = <<>>
    /\ tpc' = "clear"
    /\ memOut' = NoOut
    /\ UNCHANGED <<now, nextId, index, topics, last_consolidation, disk,
                   reader, seen>>

\* the rest of clear: self.index.clear(), self.topics.clear()
ClearIndexes ==
    /\ tpc = "clear"
    /\ index' = EmptyDict
    /\ topics' = EmptyDict
    /\ tpc' = "idle"
    /\ UNCHANGED <<now, nextId, buffer, last_consolidation, disk, memOut,
                   reader, seen>>

\* nothing read yet
NotSeen == [taken |-> FALSE, during |-> "idle", buffer |-> {}, index |-> {}]

\* the monitoring thread reads the buffer and the index (recent, by_topic,
\* diagnostics, len(memory.buffer)): none of them takes self.lock, so the
\* read runs wherever the orchestration thread stands
MonitorRead ==
    /\ seen' = [taken |-> TRUE, during |-> tpc,
                buffer |-> {buffer[i].id : i \in 1..Len(buffer)},
                index |-> DOMAIN index]
    /\ UNCHANGED <<now, memVars, tpc>>

\* the clock advances
ThreadTick ==
    /\ now < MaxTime
    /\ now' = now + 1
    /\ UNCHANGED <<memVars, threadVars>>

ThreadInit ==
    /\ tpc = "idle"
    /\ seen = NotSeen

----------------------------------------------------------------------------
(* GoalManager *)

NoId == 0       \* parent_id = None
NoTime == -1    \* completed_at = None
UnknownId == MaxGoals + 1   \* an id no goal ever has

GoalIdsOf(gs) == {gs[i].id : i \in 1..Len(gs)}

\* no result recorded: the last call was not current
NoCurrent == [called |-> FALSE, ret |-> <<>>]

\* a goal made its own parent
NewGoalOwnParent(id, priority, parent_id, t) ==
    [id |-> id, description |-> "d", priority |-> priority, status |-> "active",
     created_at |-> t, completed_at |-> NoTime, parent_id |-> id,
     subgoals |-> <<>>]

\* Goal.__init__
NewGoal(id, priority, parent_id, t) ==
    [id |-> id, description |-> "d", priority |-> priority, status |-> "active",
     created_at |-> t, completed_at |-> NoTime, parent_id |-> parent_id,
     subgoals |-> <<>>]

\* Goal.complete
GoalComplete(g, t) == [g EXCEPT !.status = "completed", !.completed_at = t]

\* Goal.fail
GoalFail(g) == [g EXCEPT !.status = "failed"]

\* GoalManager.add_goal; the caller cannot pass the uuid4 that Goal.__init__
\* is about to draw
AddGoal(priority, parent_id) ==
    /\ nextGoalId <= MaxGoals
    /\ parent_id # nextGoalId
    /\ LET g == NewGoal(nextGoalId, priority, parent_id, now)
           stored == Append(goals, g)
       IN  goals' =
             IF parent_id # NoId /\ parent_id \in GoalIdsOf(stored)
             THEN [i \in 1..Len(stored) |->
                     IF stored[i].id = parent_id
                     THEN [stored[i] EXCEPT !.subgoals = Append(@, g.id)]
                     ELSE stored[i]]
             ELSE stored
    /\ nextGoalId' = nextGoalId + 1
    /\ goalOut' = NoCurrent
    /\ UNCHANGED now

\* GoalManager.complete_goal
CompleteGoal(goal_id) ==
    /\ goals' = [i \in 1..Len(goals) |->
                   IF goals[i].id = goal_id THEN GoalComplete(goals[i], now)
                   ELSE goals[i]]
    /\ goalOut' = NoCurrent
    /\ UNCHANGED <<nextGoalId, now>>

\* GoalManager.get_goal(goal_id).fail() on a stored goal
FailGoal(goal_id) ==
    /\ goal_id \in GoalIdsOf(goals)
    /\ goals' = [i \in 1..Len(goals) |->
                   IF goals[i].id = goal_id THEN GoalFail(goals[i]) ELSE goals[i]]
    /\ goalOut' = NoCurrent
    /\ UNCHANGED <<nextGoalId, now>>

\* clear_completed dropping the failed goals too
ClearCompletedAndFailed ==
    /\ goals' = SeqFilter(goals, {g \in SeqRange(goals) : g.status = "active"})
    /\ goalOut' = NoCurrent
    /\ UNCHANGED <<nextGoalId, now>>

\* GoalManager.clear_completed
ClearCompleted ==
    /\ goals' = SeqFilter(goals, {g \in SeqRange(goals) : g.status # "completed"})
    /\ goalOut' = NoCurrent
    /\ UNCHANGED <<nextGoalId, now>>

\* the clock advances between calls
GoalTick ==
    /\ now < MaxGoalTime
    /\ now' = now + 1
    /\ goalOut' = NoCurrent
    /\ UNCHANGED <<goals, nextGoalId>>

\* the sort key of current compared: (priority, created_at) as tuples
KeyLessPriorityOnly(a, b) == a.priority < b.priority
KeyLess(a, b) ==
    \/ a.priority < b.priority
    \/ a.priority = b.priority /\ a.created_at < b.created_at

\* one step of the stable sort: g, later in the list than all of sorted,
\* goes before the first element whose key is less than its own
InsertReverse(sorted, g) ==
    LET smaller == {i \in 1..Len(sorted) : KeyLess(sorted[i], g)}
        at == IF smaller = {} THEN Len(sorted) + 1
              ELSE CHOOSE i \in smaller : \A j \in smaller : i <= j
    IN  SubSeq(sorted, 1, at - 1) \o <<g>> \o SubSeq(sorted, at, Len(sorted))

RECURSIVE SortReverse(_, _)
\* list.sort(key = ..., reverse = True): descending, equal keys in list order
SortReverse(list, sorted) ==
    IF list = <<>> THEN sorted
    ELSE SortReverse(Tail(list), InsertReverse(sorted, Head(list)))

\* Goal.to_dict
ToDict(g) ==
    [id |-> g.id, description |-> g.description, priority |-> g.priority,
     status |-> g.status, created_at |-> g.created_at,
     completed_at |-> g.completed_at, parent_id |-> g.parent_id,
     subgoals |-> g.subgoals]

\* what GoalManager.current returns
CurrentOf(gs) ==
    LET active_goals == SeqFilter(gs, {g \in SeqRange(gs) : g.status = "active"})
        sorted == SortReverse(active_goals, <<>>)
    IN  [i \in 1..Len(sorted) |-> ToDict(sorted[i])]

\* GoalManager.current
Current ==
    /\ goalOut' = [called |-> TRUE, ret |-> CurrentOf(goals)]
    /\ UNCHANGED <<goals, nextGoalId, now>>

\* GoalManager.__init__
GoalInit ==
    /\ goals = <<>>
    /\ nextGoalId = 1
    /\ goalOut = NoCurrent

----------------------------------------------------------------------------
(* SelfState, scalars in units of 1/1000, one tick = 10 seconds *)

One == 1000
Half == One \div 2
NoSnap == [taken |-> FALSE]
NoUpdate == [called |-> FALSE]

\* a metrics dictionary: the keys it has, and the value under each
\* metrics.get(k, default)
Get(metrics, k, default) == IF k \in metrics.keys THEN metrics[k] ELSE default

\* the metrics dictionaries handed to update
Metrics ==
    {m \in [keys : SUBSET {"complexity", "success", "confidence"},
            complexity : {5 * One, -One}, success : {FALSE},
            confidence : {0, 2 * One}] : TRUE}

\* the clamps of SelfState.update
ClampHigh(x) == Min(One, x)
ClampLow(x) == Max(0, x)

\* SelfState.update
SelfUpdate(metrics) ==
    LET complexity == Get(metrics, "complexity", One \div 10)
        success == Get(metrics, "success", TRUE)
        confidence_score == Get(metrics, "confidence", Half)
        f == ClampHigh(fatigue + complexity \div 10)
        c == IF success THEN ClampHigh(confidence + 50)
             ELSE ClampLow(confidence - 100)
        s == IF success THEN ClampLow(stress - 50) ELSE ClampHigh(stress + 100)
    IN  /\ updates < MaxUpdates
        /\ updates' = updates + 1
        /\ fatigue' = f
        /\ mood' = IF success THEN ClampHigh(mood + 50) ELSE ClampLow(mood - 100)
        /\ stress' = s
        /\ confidence' = IF "confidence" \in metrics.keys
                         THEN (c * 7 + confidence_score * 3) \div 10
                         ELSE c
        /\ focus' = Max(0, One - (f * 8) \div 10 - (s * 2) \div 10)
        /\ snapOut' = NoSnap
        /\ selfIn' = [called |-> TRUE, at |-> now, fatigue |-> f, stress |-> s,
                      mood |-> mood']
        /\ UNCHANGED <<last_update, now>>

\* SelfState.snapshot, with the _natural_decay it starts by
Snapshot ==
    LET delta == now - last_update
        decays == delta * 10 > 10
        recovery_amount == delta * 20
        f == IF decays THEN Max(0, fatigue - recovery_amount) ELSE fatigue
        s == IF decays THEN Max(0, stress - recovery_amount) ELSE stress
        m == IF ~decays THEN mood
             ELSE IF mood > Half THEN Max(Half, mood - recovery_amount)
             ELSE Min(Half, mood + recovery_amount)
    IN  /\ fatigue' = f
        /\ stress' = s
        /\ mood' = m
        /\ last_update' = IF decays THEN now ELSE last_update
        /\ snapOut' = [taken |-> TRUE, fatigue |-> f, stress |-> s, mood |-> m,
                       confidence |-> confidence, focus |-> focus]
        /\ UNCHANGED <<confidence, focus, updates, selfIn, now>>

\* the clock advances between calls
SelfTick ==
    /\ now < MaxTime
    /\ now' = now + 1
    /\ snapOut' = NoSnap
    /\ UNCHANGED <<fatigue, stress, mood, confidence, focus, last_update, updates,
                   selfIn>>

\* SelfState.__init__
SelfInit ==
    /\ fatigue = 0
    /\ stress = 0
    /\ mood = Half
    /\ confidence = Half
    /\ focus = One
    /\ last_update = 0
    /\ updates = 0
    /\ snapOut = NoSnap
    /\ selfIn = NoUpdate

----------------------------------------------------------------------------
(* KnowledgeBase *)

Contents == {"Hello", " hello ", "bye"}
Categories == {"general", "meta"}

\* text.strip().lower()
Normal(text) == IF text \in {"Hello", " hello "} THEN "hello" ELSE text

\* KnowledgeBase._hash: sha256 of the normalised text
Hash(text) == <<"sha256", Normal(text)>>

\* f"{category}:{doc_hash}"
DocId(content, category) == <<category, Hash(content)>>

\* add returned None
NoDocId == <<None, <<"sha256", None>>>>

\* self.collection.get(ids = [doc_id])["ids"]
CollectionGet(docs, doc_id) == {i \in 1..Len(docs) : docs[i].id = doc_id}

\* where a call of the backend raises inside add: nowhere, in collection.get,
\* or in encoder.encode / collection.add
Failures == {"none", "get", "add"}

NoAdd == [called |-> FALSE, content |-> None, category |-> None,
          failure |-> "none", ret |-> NoDocId]

\* KnowledgeBase.add
KbAddNoDedup(content, category, failure) ==
    LET doc_id == DocId(content, category)
    IN  /\ batchOut' = batchOut
        /\ kbOut' = [called |-> TRUE, content |-> content, category |-> category,
                     failure |-> failure,
                     ret |-> IF ~knowledge.available \/ failure # "none"
                             THEN NoDocId ELSE doc_id]
        /\ knowledge' =
              IF ~knowledge.available \/ failure # "none" THEN knowledge
              ELSE [knowledge EXCEPT !.docs =
                      Append(@, [id |-> doc_id, document |-> content,
                                 category |-> category])]
KbAdd(content, category, failure) ==
    LET doc_id == DocId(content, category)
        exists == CollectionGet(knowledge.docs, doc_id)
        ret == IF ~knowledge.available THEN NoDocId
               ELSE IF failure = "get" THEN NoDocId
               ELSE IF exists # {} THEN doc_id
               ELSE IF failure = "add" THEN NoDocId
               ELSE doc_id
        inserts == knowledge.available /\ failure = "none" /\ exists = {}
    IN  /\ batchOut' = batchOut
        /\ kbOut' = [called |-> TRUE, content |-> content, category |-> category,
                     failure |-> failure, ret |-> ret]
        /\ knowledge' =
              IF inserts
              THEN [knowledge EXCEPT !.docs =
                      Append(@, [id |-> doc_id, document |-> content,
                                 category |-> category])]
              ELSE knowledge

\* the lists of texts handed to add_batch
MaxBatch == 2
Batches == UNION {[1..n -> Contents] : n \in 0..MaxBatch}

\* the collection holds at most this many rows in the model
MaxDocs == 4

NoBatch == [called |-> FALSE]

\* the rows add_batch collects in its loop over texts[i..]: a text whose id
\* the collection holds is skipped, and so is one whose collection.get raised
RECURSIVE Pending(_, _, _, _, _)
Pending(docs, texts, category, failure, i) ==
    IF i > Len(texts) THEN <<>>
    ELSE LET doc_id == DocId(texts[i], category)
             skipped == \/ failure = "get" /\ i = 1
                        \/ CollectionGet(docs, doc_id) # {}
             rest == Pending(docs, texts, category, failure, i + 1)
         IN  IF skipped THEN rest
             ELSE <<[id |-> doc_id, document |-> texts[i], category |-> category]>>
                  \o rest

\* KnowledgeBase.add_batch: the closing collection.add is outside the try.
\* policy is how the backend treats a batch that names one id twice: it
\* raises DuplicateIDError, or, without that validation, inserts every row
AddBatch(texts, category, failure, policy) ==
    LET rows == IF knowledge.available
                THEN Pending(knowledge.docs, texts, category, failure, 1) ELSE <<>>
        repeated == \E i, j \in 1..Len(rows) : i < j /\ rows[i].id = rows[j].id
        raised == rows # <<>> /\ (failure = "add" \/ (repeated /\ policy = "rejects"))
    IN  /\ Len(knowledge.docs) + Len(texts) <= MaxDocs
        /\ batchOut' = [called |-> TRUE, texts |-> texts, category |-> category,
                        failure |-> failure, raised |-> raised]
        /\ knowledge' = IF raised THEN knowledge
                        ELSE [knowledge EXCEPT !.docs = @ \o rows]
        /\ kbOut' = kbOut

\* KnowledgeBase.__init__: the collection booted, or RAG is not available
KbInit(available) ==
    /\ knowledge = [available |-> available, docs |-> <<>>]
    /\ kbOut = NoAdd
    /\ batchOut = NoBatch

----------------------------------------------------------------------------
(* MetaLearning, weights in units of 1/10000, scores in units of 1/100 *)

min_weight == 1000
max_weight == 20000
learning_rate == 500
Neutral == 50       \* the neutral quality 0.5

Abs(x) == IF x < 0 THEN -x ELSE x

\* the weights and stats MetaLearning.__init__ sets before load
DefaultWeights ==
    [e \in {"WebExpert", "ReasoningExpert", "CodeExpert", "QuantumExpert",
            "CriticExpert"} |->
        IF e = "ReasoningExpert" THEN 12000
        ELSE IF e = "CriticExpert" THEN 13000 ELSE 10000]
DefaultStats ==
    [total_cycles |-> 0, successful_cycles |-> 0, lessons_learned |-> 0]

\* the contents meta_weights.json may have when MetaLearning is constructed
FileMissing == [kind |-> "missing", weights |-> DefaultWeights, stats |-> DefaultStats]
FileCorrupt == [kind |-> "corrupt", weights |-> DefaultWeights, stats |-> DefaultStats]
FileSaved ==
    [kind |-> "ok",
     weights |-> [DefaultWeights EXCEPT !["CodeExpert"] = max_weight - 200,
                                        !["CriticExpert"] = min_weight + 200],
     stats |-> [total_cycles |-> 4, successful_cycles |-> 2, lessons_learned |-> 1]]
FileEdited ==
    [kind |-> "ok",
     weights |-> [DefaultWeights EXCEPT !["CodeExpert"] = 5 * ImpOne],
     stats |-> DefaultStats]
FileNoCounters ==
    [kind |-> "ok", weights |-> DefaultWeights, stats |-> [total_cycles |-> 0]]
MetaFiles == {FileMissing, FileCorrupt, FileSaved, FileEdited, FileNoCounters}

\* MetaLearning.load: the weights and stats after it
Loaded(file) ==
    IF file.kind = "ok"
    THEN [weights |-> file.weights, stats |-> file.stats]
    ELSE [weights |-> DefaultWeights, stats |-> DefaultStats]

\* MetaLearning._adjust_weight
AdjustWeight(w, expert_name, direction, quality) ==
    LET current == IF expert_name \in DOMAIN w THEN w[expert_name] ELSE ImpOne
        delta == (direction * learning_rate * Abs(quality - Neutral) * 2) \div 100
        new_weight == Max(min_weight, Min(max_weight, current + delta))
    IN  DictSet(w, expert_name, new_weight)

\* the critique dictionaries handed to learn: the keys they have and the values
Critiques ==
    [keys : {{}, {"score", "best_expert"}, {"score", "best_expert", "needs_improvement"}},
     score : {-900, 20, 50, 100, 1000},
     best_expert : {"CodeExpert", "CriticExpert", "PoetExpert", None},
     needs_improvement : {TRUE}]

\* no learn call made yet
NoLearn == [called |-> FALSE]

\* the texts f"[LESSON] {lesson}" that _reflexion_loop hands to add
LessonContents == {"[LESSON] ALWAYS test", "[LESSON] NEVER guess"}

\* MetaLearning.learn with the _reflexion_loop it calls: a missing counter
\* raises KeyError at line 119, 125 or 163, and what was done before stays
Learn(critique, knowledge_base, lesson, failure) ==
    LET quality_score == IF "score" \in critique.keys THEN critique.score ELSE Neutral
        best_expert == IF "best_expert" \in critique.keys THEN critique.best_expert
                       ELSE None
        known == best_expert # None /\ best_expert \in DOMAIN weights
        raised119 == "total_cycles" \notin DOMAIN metaStats
        st1 == IF raised119 THEN metaStats
               ELSE [metaStats EXCEPT !.total_cycles = @ + 1]
        raised125 == /\ ~raised119
                     /\ quality_score > 70
                     /\ "successful_cycles" \notin DOMAIN st1
        goes_on == ~raised119 /\ ~raised125
        st2 == IF goes_on /\ quality_score > 70
               THEN [st1 EXCEPT !.successful_cycles = @ + 1] ELSE st1
        w == IF goes_on /\ quality_score > 70 /\ known
             THEN AdjustWeight(weights, best_expert, 1, quality_score)
             ELSE IF goes_on /\ ~(quality_score > 70) /\ quality_score < 40 /\ known
             THEN AdjustWeight(weights, best_expert, -1, quality_score)
             ELSE weights
        reflexion == /\ goes_on
                     /\ "needs_improvement" \in critique.keys
                     /\ critique.needs_improvement
                     /\ knowledge_base
        raised163 == reflexion /\ "lessons_learned" \notin DOMAIN st2
        st == IF reflexion /\ ~raised163
              THEN [st2 EXCEPT !.lessons_learned = @ + 1] ELSE st2
        raised == raised119 \/ raised125 \/ raised163
    IN  /\ learns < MaxLearns
        /\ learns' = learns + 1
        /\ weights' = w
        /\ metaStats' = st
        /\ metaFile' = IF ~raised /\ st.total_cycles % 5 = 0
                       THEN [kind |-> "ok", weights |-> w, stats |-> st]
                       ELSE metaFile
        /\ metaIn' = [called |-> TRUE, critique |-> critique,
                      knowledge_base |-> knowledge_base, raised |-> raised]
        /\ IF reflexion THEN KbAdd(lesson, "mistake_pattern", failure)
           ELSE UNCHANGED kbVars

\* MetaLearning.__init__ with the weights file it finds
MetaInit(file) ==
    /\ metaFile = file
    /\ weights = Loaded(file).weights
    /\ metaStats = Loaded(file).stats
    /\ learns = 0
    /\ metaIn = NoLearn

----------------------------------------------------------------------------
(* PolicySampler *)

\* the words prompts are made of; the Cyrillic keywords are transliterated
Words == {"CODE", "decode", "Research", "kto", "hello"}
CodingKeywords == {"kod", "code", "python", "script"}
ResearchKeywords == {"poisk", "naidi", "research", "kto", "kogda"}
Prompts == UNION {[1..n -> Words] : n \in 0..MaxPromptLen}

\* str.lower on a word
LowerWord(w) ==
    IF w = "CODE" THEN "code" ELSE IF w = "Research" THEN "research"
    ELSE IF w = "EXIT" THEN "exit" ELSE w

\* the keywords that are substrings of a word
KeywordsIn(w) ==
    IF w \in {"code", "decode"} THEN {"code"}
    ELSE IF w = "research" THEN {"research"}
    ELSE IF w = "kto" THEN {"kto"}
    ELSE {}

\* any(w in p for w in keywords), p a list of words
AnyIn(keywords, p) == \E i \in 1..Len(p) : KeywordsIn(p[i]) \cap keywords # {}

\* prompt.lower()
Lower(prompt) == [i \in 1..Len(prompt) |-> LowerWord(prompt[i])]

Object(val) == [type |-> "object", val |-> val]
Invalid == [type |-> "invalid", val |-> <<>>]

\* PolicySampler._fallback_routing
FallbackResearchFirst(prompt) ==
    LET p == Lower(prompt)
    IN  IF AnyIn(ResearchKeywords, p)
        THEN Object([intent |-> "RESEARCH", expert |-> "ResearchExpert", difficulty |-> 3])
        ELSE IF AnyIn(CodingKeywords, p)
        THEN Object([intent |-> "CODING", expert |-> "CodeExpert", difficulty |-> 5])
        ELSE Object([intent |-> "REASONING", expert |-> "ReasoningExpert",
                     difficulty |-> 5])
FallbackRouting(prompt) ==
    LET p == Lower(prompt)
    IN  IF AnyIn(CodingKeywords, p)
        THEN Object([intent |-> "CODING", expert |-> "CodeExpert", difficulty |-> 5])
        ELSE IF AnyIn(ResearchKeywords, p)
        THEN Object([intent |-> "RESEARCH", expert |-> "ResearchExpert", difficulty |-> 3])
        ELSE Object([intent |-> "REASONING", expert |-> "ReasoningExpert",
                     difficulty |-> 5])

\* what the model replies: whether the text is wrapped in ``` fences, whether
\* it contains "{", and what json.loads makes of the text without fences
Replies ==
    {[name |-> "refusal", fenced |-> FALSE, brace |-> FALSE, json |-> Invalid],
     [name |-> "ollama not found", fenced |-> FALSE, brace |-> FALSE, json |-> Invalid],
     [name |-> "prose around json", fenced |-> FALSE, brace |-> TRUE, json |-> Invalid],
     [name |-> "list of numbers", fenced |-> FALSE, brace |-> FALSE,
      json |-> [type |-> "array", val |-> <<1, 2>>]],
     [name |-> "complete", fenced |-> TRUE, brace |-> TRUE,
      json |-> Object([intent |-> "CODING", expert |-> "CodeExpert", difficulty |-> 7])],
     [name |-> "intent only", fenced |-> FALSE, brace |-> TRUE,
      json |-> Object([intent |-> "CHAT"])],
     [name |-> "out of range", fenced |-> FALSE, brace |-> TRUE,
      json |-> Object([intent |-> "TRANSLATE", expert |-> "PoetExpert",
                       difficulty |-> 11])],
     [name |-> "list of objects", fenced |-> TRUE, brace |-> TRUE,
      json |-> [type |-> "array", val |-> <<"CODING">>]]}

\* response.replace("```json", "").replace("```", "").strip()
CleanJson(reply) == [reply EXCEPT !.fenced = FALSE]

\* json.loads: text still wrapped in fences does not parse
JsonLoads(text) == IF text.fenced THEN Invalid ELSE text.json

\* PolicySampler.classify_intent, given the reply of _ask_model
ClassifyIntent(prompt, reply) ==
    LET clean_json == CleanJson(reply)
    IN  IF ~clean_json.brace THEN FallbackRouting(prompt)
        ELSE IF JsonLoads(clean_json) = Invalid THEN FallbackRouting(prompt)
        ELSE JsonLoads(clean_json)

NoReply == [name |-> "none", fenced |-> FALSE, brace |-> FALSE, json |-> Invalid]
NoCall == [called |-> FALSE, prompt |-> <<>>, reply |-> NoReply]

\* one call of classify_intent
Classify(prompt, reply) ==
    /\ routeIn' = [called |-> TRUE, prompt |-> prompt, reply |-> reply]
    /\ routeOut' = ClassifyIntent(prompt, reply)

RouteInit ==
    /\ routeIn = NoCall
    /\ routeOut = Invalid

----------------------------------------------------------------------------
(* FusionBrain.repl and FusionBrain.think *)

BrainPrompts == {<<"CODE">>, <<"kto">>, <<"hello">>}
NoPlan == [intent |-> None, expert |-> None, difficulty |-> 0]

\* the dispatch loop not entered: no attempt, no result, no response
NoText == <<"None", 0>>     \* no text yet
EmptyText == <<"", 0>>      \* the empty string
NoContext == [prompt |-> <<>>, knowledge |-> <<>>, critique |-> <<>>]
NoLoop ==
    [attempt |-> 0, max_retries |-> 0, result |-> NoText, critique |-> NoText,
     final_response |-> NoText, dispatches |-> 0, critic_calls |-> 0,
     passed |-> FALSE, lessons_context |-> <<>>, context |-> NoContext]

\* plan.get(k, default)
PlanGet(p, k, default) == IF k \in DOMAIN p.val THEN p.val[k] ELSE default

\* repl reads a prompt and think stores it: self.memory.store_user(user_prompt)
ThinkStart(prompt) ==
    /\ pc = "idle"
    /\ Store("user", prompt, None, ImpOne, ImpOne)
    /\ user_prompt' = prompt
    /\ plan' = NoPlan
    /\ loop' = NoLoop
    /\ pc' = "route"

\* think: plan = self.router.classify_intent(user_prompt) and the three
\* plan.get calls, which raise AttributeError when plan is not a dict
Route(reply) ==
    /\ pc = "route"
    /\ LET p == ClassifyIntent(user_prompt, reply)
       IN  IF p.type = "object"
           THEN /\ plan' = [intent |-> PlanGet(p, "intent", "CHAT"),
                            expert |-> PlanGet(p, "expert", "ReasoningExpert"),
                            difficulty |-> PlanGet(p, "difficulty", 1)]
                /\ pc' = "retrieve"
           ELSE /\ plan' = plan
                /\ pc' = "raised"
    /\ UNCHANGED <<user, user_prompt, loop, now, memVars>>

\* think: self.knowledge.retrieve(user_prompt, n_results=2).  KnowledgeBase
\* .retrieve takes (query, top_k): the keyword n_results raises TypeError
Retrieve ==
    /\ pc = "retrieve"
    /\ pc' = "raised"
    /\ UNCHANGED <<user, user_prompt, plan, loop, now, memVars>>

\* what input() gives: a line, as its words and the spaces around them,
\* or an exception
Interrupt == <<"^C">>       \* KeyboardInterrupt
EndOfInput == <<"^D">>      \* EOFError
ReplLines ==
    BrainPrompts \cup {<<>>, <<" ">>, <<"EXIT">>, <<"quit">>, <<" ", "quit">>}

\* not user.strip()
IsBlank(line) == \A i \in 1..Len(line) : line[i] = " "

\* repl: user = input(), the two tests on it, and the call of think
ReplInput(line) ==
    /\ pc = "idle"
    /\ user' = line
    /\ IF Lower(line) \in {<<"exit">>, <<"quit">>}
       THEN /\ pc' = "exited"
            /\ UNCHANGED <<user_prompt, plan, loop, now, memVars>>
       ELSE IF IsBlank(line)
       THEN UNCHANGED <<pc, user_prompt, plan, loop, now, memVars>>
       ELSE ThinkStart(line)

\* repl: input() raises EOFError, which except Exception catches
ReplEndOfInput ==
    /\ pc = "idle"
    /\ user' = EndOfInput
    /\ pc' = "input raised"
    /\ UNCHANGED <<user_prompt, plan, loop, now, memVars>>

\* repl: except KeyboardInterrupt, raised in input() or anywhere in think
ReplInterrupt ==
    /\ pc # "exited"
    /\ user' = Interrupt
    /\ pc' = "exited"
    /\ UNCHANGED <<user_prompt, plan, loop, now, memVars>>

\* repl: except Exception prints the error and reads the next input
ReplCrash ==
    /\ pc \in {"raised", "input raised"}
    /\ pc' = "exited"
    /\ UNCHANGED <<user, user_prompt, plan, loop, now, memVars>>
ReplCatch ==
    /\ pc \in {"raised", "input raised"}
    /\ pc' = "idle"
    /\ UNCHANGED <<user, user_prompt, plan, loop, now, memVars>>

\* FusionBrain.CONTEXT_LIMIT and FusionBrain.CRITIQUE_LIMIT, in characters
CONTEXT_LIMIT == 4000
CRITIQUE_LIMIT == 2000

\* A long string is a sequence of pieces, each the characters lo..hi of a
\* named source string; Text(src, n) is the whole of a source of n characters
Text(src, n) == IF n = 0 THEN <<>> ELSE <<[src |-> src, lo |-> 1, hi |-> n]>>

RECURSIVE TextLen(_)
\* len(s)
TextLen(s) ==
    IF s = <<>> THEN 0 ELSE (Head(s).hi - Head(s).lo + 1) + TextLen(Tail(s))

RECURSIVE CharAt(_, _)
\* s[i - 1]: the source and the position in it of the i-th character
CharAt(s, i) ==
    LET piece == Head(s)
        n == piece.hi - piece.lo + 1
    IN  IF i <= n THEN <<piece.src, piece.lo + i - 1>>
        ELSE CharAt(Tail(s), i - n)

RECURSIVE SliceFirst(_, _)
\* s[:n]
SliceFirst(s, n) ==
    IF s = <<>> \/ n <= 0 THEN <<>>
    ELSE LET piece == Head(s)
             k == piece.hi - piece.lo + 1
         IN  IF k <= n THEN <<piece>> \o SliceFirst(Tail(s), n - k)
             ELSE <<[piece EXCEPT !.hi = piece.lo + n - 1]>>

RECURSIVE TakeLast(_, _)
\* the last n characters of s, none when n is 0
TakeLast(s, n) ==
    IF s = <<>> \/ n <= 0 THEN <<>>
    ELSE LET piece == s[Len(s)]
             k == piece.hi - piece.lo + 1
         IN  IF k <= n THEN TakeLast(SubSeq(s, 1, Len(s) - 1), n - k) \o <<piece>>
             ELSE <<[piece EXCEPT !.lo = piece.hi - n + 1]>>

\* s[-n:], which is the whole of s when n is 0
SliceLast(s, n) == IF n = 0 THEN s ELSE TakeLast(s, n)

\* the lengths of the prompts, of str(retrieved) and of the critic's texts
\* the loop is run with
PromptLens == {10, 1954, 4001}
RetrievedStrs == {[lesson |-> FALSE, len |-> 2], [lesson |-> TRUE, len |-> 300],
                  [lesson |-> TRUE, len |-> 5000]}
CritiqueLens == {40, 3000}

\* lessons_context, lines 75-81
LessonsContext(retrieved_str, lesson) ==
    IF lesson
    THEN Text("\nCRITICAL MEMORY:\n", 18)
           \o SliceFirst(retrieved_str, CONTEXT_LIMIT)
           \o Text("\nAvoid repeating this.", 22)
    ELSE <<>>

\* prompt_for_expert cut at its head instead of its tail
PromptForExpertHead(prompt, lessons_context) ==
    SliceFirst(prompt \o lessons_context, CONTEXT_LIMIT)

\* prompt_for_expert, line 83
PromptForExpert(prompt, lessons_context) ==
    SliceLast(prompt \o lessons_context, CONTEXT_LIMIT)

\* context, lines 85-90 (its "memory" and "prev_output" entries are not
\* modelled)
BuildContext(prompt, lessons_context, retrieved_str) ==
    [prompt |-> PromptForExpert(prompt, lessons_context),
     knowledge |-> SliceFirst(retrieved_str, CONTEXT_LIMIT),
     critique |-> <<>>]

\* context["prompt"] of a retry, lines 99-106
RetryPrompt(prompt, critique) ==
    Text("ORIGINAL TASK:\n", 15) \o prompt
      \o Text("\n\nCRITIC FEEDBACK:\n", 19)
      \o SliceFirst(critique, CRITIQUE_LIMIT)
      \o Text("\n\nFix errors.", 13)

\* the plans the dispatch loop is entered with
LoopIntents == {"CODING", "REASONING", "RESEARCH", "CHAT"}
LoopExperts == {"CodeExpert", "ResearchExpert", "PoetExpert"}
Difficulties == {3, 4, 5}

\* self.experts_map.get(target_expert_name, self.default_expert)
ExpertFor(target_expert_name) ==
    IF target_expert_name \in {"CodeExpert", "ResearchExpert", "ReasoningExpert"}
    THEN target_expert_name ELSE "ReasoningExpert"

\* what expert.run(context) can do.  BaseExpert.run turns every exception
\* of _perform_task into a text; ResearchExpert overrides run without a
\* try around its body, so its exceptions leave run
RunOutcomes(expert) ==
    IF expert = "ResearchExpert" THEN {"text", "raise"}
    ELSE {"text", "error text"}

\* what self.critic.run(context) can do: CriticExpert overrides run; its
\* text holds a pass marker or not
CriticOutcomes == {"pass", "fail", "raise"}

\* intent in {"CODING", "REASONING"} and difficulty >= 4
Gated(p) == p.intent \in {"CODING", "REASONING"} /\ p.difficulty >= 4

\* max_retries = 2 if difficulty > 4 else 1
MaxRetries(difficulty) == IF difficulty > 4 THEN 2 ELSE 1

\* think from line 73 to its dispatch loop, lines 94-97, with the plan of
\* lines 64-68 and str(retrieved) taken as given (as written, line 72 raises
\* before the loop is reached)
EnterLoop(intent, target_expert_name, difficulty) ==
    /\ pc = "idle"
    /\ plan' = [intent |-> intent, expert |-> target_expert_name,
                difficulty |-> difficulty]
    /\ \E n \in PromptLens, retrieved \in RetrievedStrs :
          LET retrieved_str == Text("retrieved", retrieved.len)
              lessons_context == LessonsContext(retrieved_str, retrieved.lesson)
          IN  /\ user_prompt' = Text("user_prompt", n)
              /\ loop' = [NoLoop EXCEPT
                            !.max_retries = MaxRetries(difficulty),
                            !.final_response = EmptyText,
                            !.lessons_context = lessons_context,
                            !.context = BuildContext(Text("user_prompt", n),
                                                     lessons_context,
                                                     retrieved_str)]
    /\ pc' = "dispatch"
    /\ UNCHANGED <<user, now, memVars>>

\* the retry prompt of lines 98-106 when attempt > 0, result =
\* expert.run(context), and the branch of line 110 when the critique gate is
\* closed: final_response = result, break
Dispatch(outcome) ==
    /\ pc = "dispatch"
    /\ outcome \in RunOutcomes(ExpertFor(plan.expert))
    /\ LET result == <<outcome, loop.attempt>>
           context == IF loop.attempt > 0
                      THEN [loop.context EXCEPT
                              !.prompt = RetryPrompt(user_prompt,
                                                     loop.context.critique)]
                      ELSE loop.context
       IN  IF outcome = "raise"
           THEN /\ loop' = [loop EXCEPT !.dispatches = @ + 1, !.context = context]
                /\ pc' = "raised"
           ELSE IF Gated(plan)
           THEN /\ loop' = [loop EXCEPT !.dispatches = @ + 1, !.result = result,
                                        !.context = context]
                /\ pc' = "critique"
           ELSE /\ loop' = [loop EXCEPT !.dispatches = @ + 1, !.result = result,
                                        !.final_response = result,
                                        !.context = context]
                /\ pc' = "learn"
    /\ UNCHANGED <<user, user_prompt, plan, now, memVars>>

\* the for loop of line 97 taking its next round, or ending
NextRound(attempt, max_retries) ==
    IF attempt + 1 < max_retries THEN "dispatch" ELSE "learn"

\* the critique gate without the break of line 118: a pass goes on to the
\* next round
CritiqueNoBreak(outcome) ==
    /\ pc = "critique"
    /\ outcome # "raise"
    /\ \E n \in CritiqueLens :
          loop' = [loop EXCEPT
                     !.critic_calls = @ + 1,
                     !.passed = (outcome = "pass"),
                     !.critique = <<outcome, loop.attempt>>,
                     !.context = [@ EXCEPT !.critique = Text("critique", n)],
                     !.final_response = loop.result,
                     !.attempt = @ + 1]
    /\ pc' = NextRound(loop.attempt, loop.max_retries)
    /\ UNCHANGED <<user, user_prompt, plan, now, memVars>>

\* the critique gate with line 121 always leaving the placeholder
CritiquePlaceholder(outcome) ==
    /\ pc = "critique"
    /\ outcome # "raise"
    /\ loop' = [loop EXCEPT
                  !.critic_calls = @ + 1,
                  !.passed = (outcome = "pass"),
                  !.final_response = IF outcome = "pass" THEN loop.result
                                     ELSE EmptyText,
                  !.attempt = IF outcome = "pass" THEN @ ELSE @ + 1]
    /\ pc' = IF outcome = "pass" THEN "learn"
             ELSE NextRound(loop.attempt, loop.max_retries)
    /\ UNCHANGED <<user, user_prompt, plan, now, memVars>>

\* critique = self.critic.run(context) and lines 114-121, then the next
\* round of the for loop or its end
Critique(outcome) ==
    /\ pc = "critique"
    /\ IF outcome = "raise"
       THEN /\ loop' = [loop EXCEPT !.critic_calls = @ + 1]
            /\ pc' = "raised"
       ELSE IF outcome = "pass"
       THEN /\ loop' = [loop EXCEPT !.critic_calls = @ + 1,
                                    !.passed = TRUE,
                                    !.final_response = loop.result]
            /\ pc' = "learn"
       ELSE /\ \E n \in CritiqueLens :
                 loop' = [loop EXCEPT
                            !.critic_calls = @ + 1,
                            !.critique = <<"fail", loop.attempt>>,
                            !.context = [@ EXCEPT !.critique = Text("critique", n)],
                            !.final_response =
                                IF loop.attempt = loop.max_retries - 1
                                THEN loop.result ELSE EmptyText,
                            !.attempt = @ + 1]
            /\ pc' = NextRound(loop.attempt, loop.max_retries)
    /\ UNCHANGED <<user, user_prompt, plan, now, memVars>>

\* self.meta_learner.track(target_expert_name, final_response): MetaLearning
\* has no method track, the call raises AttributeError
Track ==
    /\ pc = "learn"
    /\ pc' = "raised"
    /\ UNCHANGED <<user, user_prompt, plan, loop, now, memVars>>

\* FusionBrain.__init__, taken as having built its collaborators (as written,
\* MetaLearning(self.memory) makes load call os.path.exists on a Memory, which
\* raises TypeError); repl waits for input
BrainInit ==
    /\ pc = "idle"
    /\ user = <<>>
    /\ user_prompt = <<>>
    /\ plan = NoPlan
    /\ loop = NoLoop

----------------------------------------------------------------------------
(* CriticExpert *)

forbidden_imports == {"subprocess", "socket", "requests", "shutil"}

\* dotted module names an import statement can name
ModuleNames == {<<"math">>, <<"shutil">>, <<"requests", "adapters">>}

\* a Python text: whether ast.parse accepts it and the modules its import
\* statements name
Codes == [parses : BOOLEAN, imports : SUBSET ModuleNames]

NoCode == [parses |-> FALSE, imports |-> {}]
NoPair == <<"None", -1>>

\* CriticExpert._is_safe: no Import / ImportFrom node names a module whose
\* first component is forbidden; text that does not parse is unsafe
IsSafe(code) ==
    /\ code.parses
    /\ \A module \in code.imports : module[1] \notin forbidden_imports

\* what subprocess.run can do with the file
SandboxOutcomes == {"exit 0", "exit 1", "timeout", "exception"}

\* what _execute_sandbox returns for each of them (lines 98, 101, 104)
SandboxReturn(outcome) ==
    CASE outcome = "exit 0" -> <<"OK", 0>>
      [] outcome = "exit 1" -> <<"FAILED", 1>>
      [] outcome = "timeout" -> <<"Timeout exceeded", 1>>
      [] outcome = "exception" -> <<"str(e)", 1>>

\* CriticExpert.run up to the generation of the tests: a draft without a
\* python block gets a text critique, an unsafe block is refused
CriticRun(has_code, original_code) ==
    /\ critic.pc = "idle"
    /\ critic' =
         IF ~has_code
         THEN [critic EXCEPT !.pc = "returned", !.ret = "text critique"]
         ELSE IF ~IsSafe(original_code)
         THEN [critic EXCEPT !.pc = "returned", !.original_code = original_code,
                             !.ret = "Security Block"]
         ELSE [critic EXCEPT !.pc = "generate", !.original_code = original_code]

\* _generate_test returns whatever the model wrote; full_suite is the
\* candidate code followed by it
GenerateTest(test_code) ==
    /\ critic.pc = "generate"
    /\ critic' = [critic EXCEPT
                    !.pc = "sandbox",
                    !.full_suite =
                        [parses |-> critic.original_code.parses /\ test_code.parses,
                         imports |-> critic.original_code.imports
                                       \cup test_code.imports]]

\* _execute_sandbox, lines 87-89: the temporary file is created with
\* delete=False and written before the try statement begins
SandboxWrite(written) ==
    /\ critic.pc = "sandbox"
    /\ critic' = [critic EXCEPT
                    !.pc = IF written THEN "subprocess" ELSE "raised",
                    !.sandboxed = TRUE,
                    !.tmp_exists = TRUE]

\* _execute_sandbox, lines 91-108, and the verdict of run (lines 66-69);
\* the unlink of the finally clause may fail, which is suppressed
SandboxRun(outcome, unlinked) ==
    /\ critic.pc = "subprocess"
    /\ critic' = [critic EXCEPT
                    !.pc = "returned",
                    !.outcome = outcome,
                    !.ran = (outcome # "exception"),
                    !.sandbox = SandboxReturn(outcome),
                    !.tmp_exists = ~unlinked,
                    !.ret = IF outcome = "exit 0" THEN "Verification Passed"
                            ELSE "Verification Failed"]

CriticInit ==
    critic = [pc |-> "idle", original_code |-> NoCode, full_suite |-> NoCode,
              sandboxed |-> FALSE, tmp_exists |-> FALSE, ran |-> FALSE,
              outcome |-> None,
              sandbox |-> NoPair, ret |-> None]

----------------------------------------------------------------------------
(* Specifications *)

Init ==
    /\ now = 0
    /\ MemInit
    /\ ThreadInit
    /\ GoalInit
    /\ SelfInit
    /\ MetaInit(FileMissing)
    /\ RouteInit
    /\ BrainInit
    /\ KbInit(FALSE)
    /\ CriticInit

\* MetaLearning constructed over any of the weights files
InitMeta ==
    /\ now = 0
    /\ MemInit
    /\ ThreadInit
    /\ GoalInit
    /\ SelfInit
    /\ \E file \in MetaFiles : MetaInit(file)
    /\ RouteInit
    /\ BrainInit
    /\ KbInit(FALSE)
    /\ CriticInit

notMem == <<threadVars, goalVars, selfVars, metaVars, routeVars, brainVars, kbVars,
    criticVars>>
notThread == <<goalVars, selfVars, metaVars, routeVars, brainVars, kbVars,
    criticVars>>
notGoal == <<memVars, threadVars, selfVars, metaVars, routeVars, brainVars, kbVars,
    criticVars>>
notSelf == <<memVars, threadVars, goalVars, metaVars, routeVars, brainVars, kbVars,
    criticVars>>
notMeta == <<now, memVars, threadVars, goalVars, selfVars, routeVars, brainVars,
    criticVars>>
notRoute == <<now, memVars, threadVars, goalVars, selfVars, metaVars, brainVars, kbVars,
    criticVars>>
notBrain == <<threadVars, goalVars, selfVars, metaVars, routeVars, kbVars,
    criticVars>>

MemNext ==
    \/ \E topic \in Topics \cup {None} :
          Store("user", "c", topic, ImpLow, ImpOne) /\ UNCHANGED notMem
    \/ Inject("system", "c", None, ImpOne) /\ UNCHANGED notMem
    \/ Consolidate /\ UNCHANGED notMem
    \/ Save /\ UNCHANGED notMem
    \/ SaveCrash /\ UNCHANGED notMem
    \/ Load /\ UNCHANGED notMem
    \/ Clear /\ UNCHANGED notMem
    \/ Tick /\ UNCHANGED notMem

SpecMemory == Init /\ [][MemNext]_vars

\* the calls of Memory.recent on the buffers that store and inject build
RecentNext ==
    \/ \E topic \in Topics \cup {None} :
          Store("user", "c", topic, ImpLow, ImpOne) /\ UNCHANGED notMem
    \/ Inject("system", "c", None, ImpOne) /\ UNCHANGED notMem
    \/ \E n \in 0..(MaxItems + 1) : RecentCall(n) /\ UNCHANGED notMem
    \/ Tick /\ UNCHANGED notMem

SpecRecent == Init /\ [][RecentNext]_vars

\* the orchestration thread and the monitoring thread, interleaved
ThreadNext ==
    \/ \E topic \in Topics \cup {None} :
          RegisterAppend("user", "c", topic, ImpLow, ImpOne) /\ UNCHANGED notThread
    \/ RegisterIndex /\ UNCHANGED notThread
    \/ SweepBuffer /\ UNCHANGED notThread
    \/ SweepIndex /\ UNCHANGED notThread
    \/ ClearBuffer /\ UNCHANGED notThread
    \/ ClearIndexes /\ UNCHANGED notThread
    \/ MonitorRead /\ UNCHANGED notThread
    \/ ThreadTick /\ UNCHANGED notThread

SpecThreads == Init /\ [][ThreadNext]_vars

\* snapshots saved by one Memory and loaded by a second one of any capacity
SnapshotNext ==
    \/ \E topic \in Topics \cup {None} :
          Store("user", "c", topic, ImpLow, ImpOne) /\ UNCHANGED notMem
    \/ Inject("system", "c", None, ImpOne) /\ UNCHANGED notMem
    \/ Save /\ UNCHANGED notMem
    \/ \E maxlen \in 1..MaxItems : LoadInto(maxlen) /\ UNCHANGED notMem
    \/ Tick /\ UNCHANGED notMem

SpecSnapshot == Init /\ [][SnapshotNext]_vars

\* the calls of Memory.consolidate on the buffers that store and inject build
SweepNext ==
    \/ \E topic \in Topics \cup {None} :
          Store("user", "c", topic, ImpLow, ImpOne) /\ UNCHANGED notMem
    \/ Store("user", "c", None, ImpFloor, ImpOne) /\ UNCHANGED notMem
    \/ Inject("system", "c", None, ImpOne) /\ UNCHANGED notMem
    \/ Consolidate /\ UNCHANGED notMem
    \/ \E topic \in Topics : ByTopicCall(topic) /\ UNCHANGED notMem
    \/ SweepTick /\ UNCHANGED notMem

SpecSweep == Init /\ [][SweepNext]_vars

\* the decayed importance of items of every age
DecayNext ==
    \/ Store("user", "c", None, ImpLow, ImpOne) /\ UNCHANGED notMem
    \/ Inject("system", "c", None, ImpOne) /\ UNCHANGED notMem
    \/ \E i \in 1..MaxItems : DecayCall(i) /\ UNCHANGED notMem
    \/ AgeTick /\ UNCHANGED notMem

SpecDecay == Init /\ [][DecayNext]_vars

GoalNext ==
    \/ \E priority \in {1, 5},
          parent_id \in {NoId, 1, Max(nextGoalId - 1, 1), UnknownId} :
          AddGoal(priority, parent_id) /\ UNCHANGED notGoal
    \/ \E goal_id \in (1..MaxGoals) \cup {UnknownId} :
          CompleteGoal(goal_id) /\ UNCHANGED notGoal
    \/ \E goal_id \in 1..MaxGoals : FailGoal(goal_id) /\ UNCHANGED notGoal
    \/ ClearCompleted /\ UNCHANGED notGoal
    \/ GoalTick /\ UNCHANGED notGoal

SpecGoals == Init /\ [][GoalNext]_vars

\* the calls of GoalManager.current on the goals that add_goal, complete,
\* fail and clear_completed leave
CurrentNext ==
    \/ \E priority \in {1, 5} : AddGoal(priority, NoId) /\ UNCHANGED notGoal
    \/ \E goal_id \in 1..MaxGoals : CompleteGoal(goal_id) /\ UNCHANGED notGoal
    \/ \E goal_id \in 1..MaxGoals : FailGoal(goal_id) /\ UNCHANGED notGoal
    \/ ClearCompleted /\ UNCHANGED notGoal
    \/ Current /\ UNCHANGED notGoal
    \/ GoalTick /\ UNCHANGED notGoal

SpecCurrent == Init /\ [][CurrentNext]_vars

SelfNext ==
    \/ \E metrics \in Metrics : SelfUpdate(metrics) /\ UNCHANGED notSelf
    \/ Snapshot /\ UNCHANGED notSelf
    \/ SelfTick /\ UNCHANGED notSelf

SpecSelf == Init /\ [][SelfNext]_vars

MetaNext ==
    \E critique \in Critiques, knowledge_base \in BOOLEAN :
        Learn(critique, knowledge_base, "[LESSON] ALWAYS test", "none")
          /\ UNCHANGED notMeta

SpecMeta == InitMeta /\ [][MetaNext]_vars

RouteNext ==
    \E prompt \in Prompts, reply \in Replies :
        Classify(prompt, reply) /\ UNCHANGED notRoute

SpecRouter == Init /\ [][RouteNext]_vars

BrainNext ==
    \/ \E line \in ReplLines : ReplInput(line) /\ UNCHANGED notBrain
    \/ ReplEndOfInput /\ UNCHANGED notBrain
    \/ ReplInterrupt /\ UNCHANGED notBrain
    \/ \E reply \in Replies : Route(reply) /\ UNCHANGED notBrain
    \/ Retrieve /\ UNCHANGED notBrain
    \/ ReplCatch /\ UNCHANGED notBrain

SpecBrain == Init /\ [][BrainNext]_vars

\* the dispatch loop of think under every plan and every behaviour of the
\* expert and the critic
DispatchNext ==
    \/ \E intent \in LoopIntents, target_expert_name \in LoopExperts,
          difficulty \in Difficulties :
          EnterLoop(intent, target_expert_name, difficulty) /\ UNCHANGED notBrain
    \/ \E outcome \in {"text", "error text", "raise"} :
          Dispatch(outcome) /\ UNCHANGED notBrain
    \/ \E outcome \in CriticOutcomes : Critique(outcome) /\ UNCHANGED notBrain
    \/ Track /\ UNCHANGED notBrain
    \/ ReplCatch /\ UNCHANGED notBrain

SpecDispatch == Init /\ [][DispatchNext]_vars

\* a KnowledgeBase that booted or not
InitKnowledge ==
    /\ now = 0
    /\ MemInit
    /\ ThreadInit
    /\ GoalInit
    /\ SelfInit
    /\ MetaInit(FileMissing)
    /\ RouteInit
    /\ BrainInit
    /\ \E available \in BOOLEAN : KbInit(available)
    /\ CriticInit

notKb == <<now, memVars, threadVars, goalVars, selfVars, metaVars, routeVars,
           brainVars, criticVars>>

KnowledgeNext ==
    \E content \in Contents, category \in Categories, failure \in Failures :
        KbAdd(content, category, failure) /\ UNCHANGED notKb

SpecKnowledge == InitKnowledge /\ [][KnowledgeNext]_vars

\* add_batch calls on a KnowledgeBase that booted or not
BatchNext ==
    \E texts \in Batches, category \in Categories, failure \in Failures,
       policy \in {"rejects", "inserts"} :
        AddBatch(texts, category, failure, policy) /\ UNCHANGED notKb

SpecBatch == InitKnowledge /\ [][BatchNext]_vars

\* learn handing its lessons to a KnowledgeBase that booted or not
LessonNext ==
    \E critique \in {c \in Critiques : c.score = Neutral /\ c.best_expert = None},
       knowledge_base \in BOOLEAN, lesson \in LessonContents, failure \in Failures :
        Learn(critique, knowledge_base, lesson, failure) /\ UNCHANGED notMeta

SpecLessons == InitKnowledge /\ [][LessonNext]_vars

notCritic == <<now, memVars, threadVars, goalVars, selfVars, metaVars, routeVars,
               brainVars, kbVars>>

\* one call of CriticExpert.run on every draft and every generated test
CriticNext ==
    \/ \E has_code \in BOOLEAN, original_code \in Codes :
          CriticRun(has_code, original_code) /\ UNCHANGED notCritic
    \/ \E test_code \in Codes : GenerateTest(test_code) /\ UNCHANGED notCritic
    \/ \E written \in BOOLEAN : SandboxWrite(written) /\ UNCHANGED notCritic
    \/ \E outcome \in SandboxOutcomes, unlinked \in BOOLEAN :
          SandboxRun(outcome, unlinked) /\ UNCHANGED notCritic

SpecCritic == Init /\ [][CriticNext]_vars

----------------------------------------------------------------------------
(* Properties *)

BufferIds == {buffer[i].id : i \in 1..Len(buffer)}

\* C1: the buffer never holds more than max_items items, and a store or
\* inject into a full buffer removes exactly the front (oldest) item,
\* whatever the importance of the items.
C1_RingBuffer ==
    /\ [](Len(buffer) <= max_items)
    /\ [][(nextId' # nextId /\ Len(buffer) = max_items) =>
            /\ Len(buffer') = max_items
            /\ \A i \in 1..(max_items - 1) : buffer'[i] = buffer[i + 1]
            /\ buffer'[max_items].id = nextId]_vars

\* a full buffer of low-importance items from which a store has just evicted
\* an older item of importance 1.0
C1_Witness ==
    /\ Len(buffer) = max_items
    /\ buffer[max_items].id = nextId - 1
    /\ \A i \in 1..Len(buffer) : buffer[i].importance = ImpLow
    /\ \E id \in DOMAIN index :
          id \notin BufferIds /\ id < buffer[1].id /\ index[id].importance = ImpOne

\* C2: every id of the id index and of every topic set is the id of an item
\* of the buffer.
C2_IndexesWithinBuffer ==
    /\ DOMAIN index \subseteq BufferIds
    /\ \A t \in DOMAIN topics : topics[t] \subseteq BufferIds

\* C3: think runs to completion and returns a text for every prompt and
\* every behaviour of its collaborators: no exception escapes think.
C3_ThinkCompletes == pc # "raised"

Intents == {"CODING", "RESEARCH", "REASONING", "CHAT"}

\* C4: for every prompt and every reply of the classifier, classify_intent
\* returns a decision with all three fields, an intent of the enumeration
\* and an integer difficulty in 1..10.
C4_DecisionComplete ==
    routeIn.called =>
        /\ routeOut.type = "object"
        /\ DOMAIN routeOut.val = {"intent", "expert", "difficulty"}
        /\ routeOut.val.intent \in Intents
        /\ routeOut.val.difficulty \in 1..10

\* the words of the vocabulary that hold a coding / a research keyword,
\* whatever their case
CodingWords == {"CODE", "decode"}
ResearchWords == {"Research", "kto"}
Mentions(prompt, words) == \E i \in 1..Len(prompt) : prompt[i] \in words

\* C5: when the reply is not structured data (it holds no "{" or does not
\* parse), classify_intent returns the complete rule-based decision: CODING /
\* CodeExpert if the prompt has a coding keyword, otherwise RESEARCH /
\* ResearchExpert if it has a research keyword, otherwise REASONING /
\* ReasoningExpert.
C5_FallbackOnUnstructured ==
    (routeIn.called /\ (~routeIn.reply.brace \/ routeIn.reply.json = Invalid)) =>
        /\ routeOut.type = "object"
        /\ DOMAIN routeOut.val = {"intent", "expert", "difficulty"}
        /\ routeOut.val.difficulty \in 1..10
        /\ <<routeOut.val.intent, routeOut.val.expert>> =
              IF Mentions(routeIn.prompt, CodingWords)
              THEN <<"CODING", "CodeExpert">>
              ELSE IF Mentions(routeIn.prompt, ResearchWords)
              THEN <<"RESEARCH", "ResearchExpert">>
              ELSE <<"REASONING", "ReasoningExpert">>

\* a garbled reply to a prompt with a coding and a research keyword: CODING
C5_Witness ==
    /\ routeIn.called
    /\ routeIn.reply.brace /\ routeIn.reply.json = Invalid
    /\ Mentions(routeIn.prompt, CodingWords)
    /\ Mentions(routeIn.prompt, ResearchWords)
    /\ routeOut.type = "object"
    /\ routeOut.val.intent = "CODING"

\* C6: after construction and after any sequence of learn calls every expert
\* weight lies in [min_weight, max_weight].
C6_WeightsInRange ==
    \A e \in DOMAIN weights : min_weight <= weights[e] /\ weights[e] <= max_weight

\* C7: once a goal is completed or failed, no operation changes its status
\* or its completion timestamp.
C7_TerminalIsFinal ==
    [][\A i \in 1..Len(goals) : \A j \in 1..Len(goals') :
          (goals[i].status \in {"completed", "failed"} /\ goals'[j].id = goals[i].id)
          => /\ goals'[j].status = goals[i].status
             /\ goals'[j].completed_at = goals[i].completed_at]_vars

InUnit(x) == 0 <= x /\ x <= One

\* C8: after any sequence of update calls and decay steps, fatigue, stress,
\* mood, confidence and focus each lie in [0, 1].
C8_ScalarsInUnitRange ==
    InUnit(fatigue) /\ InUnit(stress) /\ InUnit(mood) /\ InUnit(confidence)
    /\ InUnit(focus)

\* C9: recent(0) returns the empty list.
C9_RecentZeroEmpty ==
    (memOut.op = "recent" /\ memOut.arg = 0) => memOut.ret = <<>>

\* C10: for n >= 1, recent(n) returns the last min(n, len) items of the
\* buffer in insertion order.
C10_RecentLast ==
    (memOut.op = "recent" /\ memOut.arg >= 1) =>
        LET k == Min(memOut.arg, Len(buffer))
        IN  /\ Len(memOut.ret) = k
            /\ \A i \in 1..k : memOut.ret[i] = buffer[Len(buffer) - k + i]

\* recent(n) on a buffer longer than n: a proper suffix is returned
C10_Witness ==
    /\ memOut.op = "recent"
    /\ memOut.arg >= 1
    /\ memOut.arg < Len(buffer)
    /\ memOut.ret = <<buffer[Len(buffer)]>>

\* C11: consolidate is rate-limited.  A sweep (a call that rebuilds the buffer
\* and the index and moves the last-consolidation time) happens only when at
\* least consolidation_interval has passed since the previous sweep or since
\* construction, and a consolidate call made earlier than that leaves the
\* buffer, the index and the last-consolidation time unchanged.
C11_RateLimited ==
    /\ [][last_consolidation' # last_consolidation =>
            /\ now - last_consolidation >= consolidation_interval
            /\ last_consolidation' = now]_vars
    /\ [][(memOut'.op = "consolidate"
            /\ now - last_consolidation < consolidation_interval) =>
            UNCHANGED <<buffer, index, last_consolidation>>]_vars

\* a second sweep: the call found the time of an earlier sweep and moved it
C11_Witness ==
    /\ memOut.op = "consolidate"
    /\ memOut.arg >= consolidation_interval
    /\ last_consolidation = now
    /\ last_consolidation - memOut.arg >= consolidation_interval

\* C12: load of a missing path or of a corrupt / partially written file
\* does not raise and leaves the buffer and both indexes empty.
C12_LoadRecovers ==
    (memOut.op = "load" /\ disk.kind # "ok") =>
        /\ ~memOut.raised
        /\ buffer = <<>>
        /\ index = EmptyDict
        /\ topics = EmptyDict

\* the snapshot file is the save of the buffer as it stands
SnapshotOfBuffer ==
    /\ disk.kind = "ok"
    /\ Len(disk.items) = Len(buffer)
    /\ \A i \in 1..Len(buffer) : disk.items[i].id = buffer[i].id

C14_MonitorSeesWholeOperations ==
    seen.taken => seen.during = "idle"

\* C15: current returns exactly the active goals, each once, ordered by
\* priority descending and, among goals of equal priority, by creation time
\* descending; completed and failed goals never appear.
C15_CurrentOrder ==
    goalOut.called =>
        LET ret == goalOut.ret
        IN  /\ \A i \in 1..Len(ret) : ret[i].status = "active"
            /\ \A i \in 1..Len(ret) : \E k \in 1..Len(goals) : goals[k] = ret[i]
            /\ \A k \in 1..Len(goals) :
                   goals[k].status = "active" =>
                       Cardinality({i \in 1..Len(ret) : ret[i].id = goals[k].id}) = 1
            /\ \A i \in 1..Len(ret) : \A j \in (i + 1)..Len(ret) :
                   \/ ret[i].priority > ret[j].priority
                   \/ /\ ret[i].priority = ret[j].priority
                      /\ ret[i].created_at >= ret[j].created_at

\* two active goals of one priority: the one created later is returned first
C15_Witness ==
    /\ goalOut.called
    /\ Len(goals) = 2
    /\ Len(goalOut.ret) = 2
    /\ goals[1].priority = goals[2].priority
    /\ goals[1].created_at < goals[2].created_at
    /\ goalOut.ret[1].id = goals[2].id
    /\ goalOut.ret[2].id = goals[1].id

\* C16: an expert run or a critic run that raises does not abort think: no
\* step of the dispatch loop ends in an exception, the failure becomes the
\* text result of that attempt.
C16_DispatchNeverRaises ==
    [][(pc \in {"dispatch", "critique"}) => (pc' # "raised")]_vars

\* C17: an episode dispatches at most twice when difficulty is 4 or more
\* and at most once when it is less; a CODING or REASONING episode of
\* difficulty exactly 4 whose first draft failed the critique has been
\* dispatched a second time when the loop ends.
C17_AttemptBudget ==
    /\ loop.dispatches <= (IF plan.difficulty >= 4 THEN 2 ELSE 1)
    /\ (pc = "learn" /\ plan.difficulty = 4
        /\ plan.intent \in {"CODING", "REASONING"}
        /\ loop.critique # NoText) => loop.dispatches = 2

\* C18: the critic runs only in episodes of intent CODING or REASONING and
\* difficulty 4 or more; every other episode, once routed, ends with the
\* expert dispatched exactly once, the critic never called and the first
\* expert result as the final response.
C18_CriticOnlyWhenGated ==
    /\ loop.critic_calls > 0 => Gated(plan)
    /\ (plan # NoPlan /\ ~Gated(plan) /\ pc \in {"learn", "raised", "idle"}) =>
           /\ loop.dispatches = 1
           /\ loop.critic_calls = 0
           /\ loop.result # NoText
           /\ loop.final_response = loop.result

\* C19: an add that returns an id returns the id of its category and
\* content, so adding the same content twice gives the same id both times;
\* the collection then holds exactly one document under that id, and an add
\* of content whose id is already held inserts nothing.
C19_AddIsIdempotent ==
    /\ [](kbOut.called /\ kbOut.ret # NoDocId =>
            /\ kbOut.ret = DocId(kbOut.content, kbOut.category)
            /\ Cardinality(CollectionGet(knowledge.docs, kbOut.ret)) = 1)
    /\ [][(kbOut'.called
            /\ CollectionGet(knowledge.docs,
                             DocId(kbOut'.content, kbOut'.category)) # {}) =>
            /\ knowledge' = knowledge
            /\ (kbOut'.failure # "get" =>
                   kbOut'.ret = DocId(kbOut'.content, kbOut'.category))]_vars
    /\ [][(knowledge.available /\ kbOut'.called /\ kbOut'.failure = "none") =>
            kbOut'.ret # NoDocId]_vars

\* the second add of a content, written with other case and spacing, got
\* the id of the document already held and the collection kept its two
\* documents
C19_Witness ==
    /\ kbOut.called
    /\ kbOut.content = " hello "
    /\ kbOut.ret = DocId("Hello", "meta")
    /\ Len(knowledge.docs) = 2
    /\ \E i \in 1..2 : /\ knowledge.docs[i].id = kbOut.ret
                        /\ knowledge.docs[i].document = "Hello"

\* C20: a turn that fails does not end the REPL loop: after think (or
\* input) raises, the loop goes back to reading input; the loop ends only
\* on the input exit or quit or on a user interrupt; a blank input starts
\* no episode.
C20_LoopSurvivesBadTurn ==
    /\ [][(pc \in {"raised", "input raised"}) =>
            (pc' = "idle" \/ user' = Interrupt)]_vars
    /\ [][(pc # "exited" /\ pc' = "exited") =>
            \/ user' = Interrupt
            \/ pc = "idle" /\ user' \in {<<"EXIT">>, <<"quit">>}]_vars
    /\ [][(pc = "idle" /\ user' \in {<<>>, <<" ">>}) =>
            /\ pc' = "idle"
            /\ UNCHANGED <<memVars, user_prompt, plan, loop>>]_vars

\* a second episode under way: the first one raised, as every episode does,
\* and the loop read the next prompt
C20_Witness ==
    /\ pc = "route"
    /\ nextId = 3
    /\ Len(buffer) = 2
    /\ user = user_prompt
    /\ ~IsBlank(user)

\* C21: the sandbox run removes its temporary file on every exit path and
\* returns an (output, exit indicator) pair instead of raising, the indicator
\* being non-zero on timeout or exception
C21_SandboxCleansUp ==
    critic.sandboxed /\ critic.pc \in {"raised", "returned"}
        => /\ ~critic.tmp_exists
           /\ critic.pc = "returned"
           /\ critic.sandbox # NoPair
           /\ (critic.outcome \in {"timeout", "exception"}
                 => critic.sandbox[2] # 0)

\* C22: no file with an import of a forbidden module is handed to the
\* sandbox, whether the import stands in the candidate code or in the
\* generated tests appended to it
C22_NoForbiddenImportExecuted ==
    critic.ran => \A module \in critic.full_suite.imports :
              module[1] \notin forbidden_imports

C24_PassEndsLoop ==
    [][/\ (pc = "critique" /\ loop'.passed) =>
             (pc' = "learn" /\ loop'.final_response = loop.result)
       /\ (loop.passed /\ loop'.passed) =>
             (/\ loop'.dispatches = loop.dispatches
              /\ loop'.critic_calls = loop.critic_calls)]_vars

C24_Witness ==
    /\ pc = "learn"
    /\ loop.passed
    /\ loop.max_retries = 2
    /\ loop.dispatches = 1
    /\ loop.critic_calls = 1
    /\ loop.final_response = <<"text", 0>>

\* C25: the final response handed on at the end of the loop is the result of
\* the episode's last dispatch, also when every attempt failed the critique:
\* never an earlier result and never the empty placeholder
C25_FinalIsLastResult ==
    pc = "learn" =>
        /\ loop.final_response = loop.result
        /\ loop.final_response \notin {EmptyText, NoText}
        /\ loop.result[2] = loop.dispatches - 1

C25_Witness ==
    /\ pc = "learn"
    /\ ~loop.passed
    /\ loop.dispatches = 2
    /\ loop.critic_calls = 2
    /\ loop.final_response = <<"text", 1>>

\* the characters of s taken from the source src
CharsFrom(s, src) ==
    LET Pieces == {i \in 1..Len(s) : s[i].src = src}
    IN  IF Pieces = {} THEN 0
        ELSE TextLen([i \in 1..Cardinality(Pieces) |->
                        s[CHOOSE j \in Pieces :
                            Cardinality({k \in Pieces : k < j}) = i - 1]])

\* C27: the prompt of the first dispatch is the last CONTEXT_LIMIT characters
\* of the user prompt followed by the lesson context, the knowledge field
\* has at most CONTEXT_LIMIT characters, and a retry prompt holds at most
\* CRITIQUE_LIMIT characters of the critic's text
C27_FirstPromptAndLimits ==
    LET prompt == loop.context.prompt
        whole == user_prompt \o loop.lessons_context
        dropped == TextLen(whole) - TextLen(prompt)
    IN  /\ loop.dispatches = 1 =>
              /\ TextLen(prompt) = Min(CONTEXT_LIMIT, TextLen(whole))
              /\ \A i \in 1..TextLen(prompt) :
                    CharAt(prompt, i) = CharAt(whole, dropped + i)
        /\ loop.dispatches >= 1 =>
              TextLen(loop.context.knowledge) <= CONTEXT_LIMIT
        /\ loop.dispatches = 2 =>
              CharsFrom(prompt, "critique") <= CRITIQUE_LIMIT

C27_Witness ==
    /\ loop.dispatches = 1
    /\ TextLen(user_prompt) > CONTEXT_LIMIT
    /\ loop.lessons_context # <<>>
    /\ CharAt(loop.context.prompt, 1)[1] = "user_prompt"
    /\ CharAt(loop.context.prompt, 1)[2] > 1

\* C28: on every dispatch of an episode, the retry included, the prompt
\* given to the expert has at most CONTEXT_LIMIT characters
C28_PromptWithinLimit ==
    loop.dispatches >= 1 => TextLen(loop.context.prompt) <= CONTEXT_LIMIT

C29_IndexesRebuilt ==
    [][(/\ memOut.op = "consolidate"
        /\ last_consolidation # memOut.arg
        /\ memOut'.op = "by_topic") =>
           (/\ ~memOut'.raised
            /\ memOut'.ret = {m \in SeqRange(buffer) : m.topic = memOut'.arg}
            /\ DOMAIN index = BufferIds)]_vars

\* C30: a sweep that runs removes exactly the items whose decayed importance
\* is below the floor: the new buffer is the old one, in order, without
\* them, and every item at or above the floor stays
C30_SweepDropsBelowFloor ==
    [][(last_consolidation' # last_consolidation) =>
          (buffer' = SeqFilter(buffer, {m \in SeqRange(buffer) :
                                         Decay(m, now) >= DecayFloor * ImpOne}))]_vars

RECURSIVE Climb(_, _, _)
\* the id reached from id by following parent_id n times through the stored
\* goals, NoId when the chain ends before
Climb(gs, id, n) ==
    IF n = 0 \/ id \notin GoalIdsOf(gs) THEN (IF n = 0 THEN id ELSE NoId)
    ELSE Climb(gs, (CHOOSE g \in SeqRange(gs) : g.id = id).parent_id, n - 1)

\* C31: following parent_id from a stored goal never comes back to it, no
\* goal is in two children lists or twice in one, and add_goal appends the
\* new id to the children of its parent exactly when that parent is stored
C31_ForestOfGoals ==
    /\ [](\A i \in 1..Len(goals) : \A n \in 1..Len(goals) :
            Climb(goals, goals[i].id, n) # goals[i].id)
    /\ [](\A id \in 1..MaxGoals :
            Cardinality({<<i, j>> \in (1..Len(goals)) \X (1..MaxGoals) :
                           j <= Len(goals[i].subgoals)
                           /\ goals[i].subgoals[j] = id}) <= 1)
    /\ [][(nextGoalId' # nextGoalId) =>
            (LET new == goals'[Len(goals')]
             IN  \A i \in 1..Len(goals) :
                    goals'[i].subgoals =
                       IF goals[i].id = new.parent_id
                       THEN Append(goals[i].subgoals, new.id)
                       ELSE goals[i].subgoals)]_vars

C31_Witness ==
    /\ Len(goals) = 2
    /\ goals[2].parent_id = goals[1].id
    /\ goals[1].subgoals = <<goals[2].id>>
    /\ goals[1].parent_id = UnknownId

\* C32: clear_completed removes the completed goals and nothing else: every
\* other goal stays as it was, in order, also the children of a removed goal,
\* whose parent_id still names it
C32_ClearRemovesCompletedOnly ==
    [][(Len(goals') < Len(goals)) =>
          (/\ \A g \in SeqRange(goals') : g \in SeqRange(goals)
           /\ \A g \in SeqRange(goals) :
                 (g.status = "completed") <=> (g \notin SeqRange(goals'))
           /\ \A i, j \in 1..Len(goals') :
                 i < j =>
                   \E k, l \in 1..Len(goals) :
                      k < l /\ goals[k] = goals'[i] /\ goals[l] = goals'[j])]_vars

C32_Witness ==
    /\ Len(goals) = 1
    /\ goals[1].status = "failed"
    /\ goals[1].parent_id = 1
    /\ goals[1].id = 2

\* C33: every id in the children list of a stored goal is the id of a stored
\* goal whose parent_id is that goal
C33_ChildrenStored ==
    \A p \in SeqRange(goals) : \A j \in 1..Len(p.subgoals) :
        \E c \in SeqRange(goals) : c.id = p.subgoals[j] /\ c.parent_id = p.id

\* C34: decay is applied by snapshot only when more than the idle threshold
\* has passed since the last update: a snapshot taken less than 10 s (one
\* tick) after an update call returns the fatigue, stress and mood that
\* update produced, and leaves the last-update timestamp alone
C34_DecayOnlyWhenIdle ==
    (snapOut.taken /\ selfIn.called /\ now - selfIn.at < 1) =>
        /\ snapOut.fatigue = selfIn.fatigue
        /\ snapOut.stress = selfIn.stress
        /\ snapOut.mood = selfIn.mood

\* C35: in every snapshot focus is max(0, 1 - 0.8 * fatigue - 0.2 * stress)
\* of the fatigue and stress of that snapshot
C35_FocusFollows ==
    snapOut.taken =>
        snapOut.focus = Max(0, One - (snapOut.fatigue * 8) \div 10
                                   - (snapOut.stress * 2) \div 10)

\* C36: one learn call changes the weight of the attributed best expert
\* only: up, never down, for a score above 0.7, down, never up, for a score
\* below 0.4, not at all in between; an unknown or absent best expert
\* changes no weight and adds no entry
C36_OnlyBestExpertMoves ==
    [][(learns' # learns) =>
          (LET c == metaIn'.critique
               score == IF "score" \in c.keys THEN c.score ELSE Neutral
               best == IF "best_expert" \in c.keys THEN c.best_expert ELSE None
           IN  /\ DOMAIN weights' = DOMAIN weights
               /\ \A e \in DOMAIN weights :
                     /\ e # best => weights'[e] = weights[e]
                     /\ score > 70 => weights'[e] >= weights[e]
                     /\ score < 40 => weights'[e] <= weights[e]
                     /\ (score >= 40 /\ score <= 70) => weights'[e] = weights[e])]_vars

\* a weights file holding an object with the weights and the three counters
WellFormed(file) ==
    file.kind = "ok" /\ DOMAIN file.stats = DOMAIN DefaultStats

\* C37: constructed over a missing, corrupt or misshapen weights file,
\* MetaLearning has the default weights and zeroed counters, all three
\* counters are present and no later learn call raises
C37_LoadFallsBackToDefaults ==
    /\ (learns = 0 /\ ~WellFormed(metaFile)) =>
           (weights = DefaultWeights /\ metaStats = DefaultStats)
    /\ DOMAIN metaStats = DOMAIN DefaultStats
    /\ metaIn.called => ~metaIn.raised

\* C38: the lessons-learned counter advances by one exactly when a learn call
\* stores a new entry in the knowledge store, which happens only for an
\* episode that needs improvement
C38_LessonsCountStored ==
    [][(learns' # learns) =>
          (LET failing == "needs_improvement" \in metaIn'.critique.keys
                          /\ metaIn'.critique.needs_improvement
               stored == Len(knowledge'.docs) - Len(knowledge.docs)
           IN  /\ metaStats'.lessons_learned - metaStats.lessons_learned = stored
               /\ ~failing => stored = 0)]_vars

\* C39: add_batch never raises and never inserts a document id twice: after
\* a call whose backend calls all succeed the collection holds one row for
\* every text of the batch, also for a text that occurs twice in it up to
\* case and surrounding whitespace
C39_BatchInsertsOnce ==
    /\ batchOut.called => ~batchOut.raised
    /\ \A i, j \in 1..Len(knowledge.docs) :
          i # j => knowledge.docs[i].id # knowledge.docs[j].id
    /\ (batchOut.called /\ knowledge.available /\ batchOut.failure = "none") =>
          \A k \in 1..Len(batchOut.texts) :
              Cardinality(CollectionGet(knowledge.docs,
                              DocId(batchOut.texts[k], batchOut.category))) = 1

====
